---- MODULE Spec2Model ----
(***************************************************************************)
(* Model of app.py: the daily loss guard (GUARD and its handlers) and the  *)
(* /tv bracket run (entry, fill poll, TP legs, stop-loss chain).           *)
(*                                                                         *)
(* Quantities, prices and equity are integers: every value is a whole      *)
(* number of the smallest unit the venue quotes, so floor division by the  *)
(* step is math.floor(x / step) and fmt_num, which prints 8 decimals, is   *)
(* exact on them.                                                          *)
(*                                                                         *)
(* Every handler is an `async def` that never awaits after reading its     *)
(* body (requests and time.sleep block the event loop), so a handler runs  *)
(* from start to end without another handler of this process in between.   *)
(* A /tv run is still split at its venue calls, because the venue and the  *)
(* clock move between two calls.                                           *)
(*                                                                         *)
(* parked holds the coroutines the event loop has suspended, seen the key  *)
(* of the latest /tv signal while the dedup window of the design is open;  *)
(* the program keeps no such record, the variable is the history the       *)
(* idempotency property is stated over.                                    *)
(***************************************************************************)
EXTENDS Integers, Sequences, FiniteSets, TLC

VARIABLES GUARD, today, pc, run, g, calls, resp, parked, seen

vars == <<GUARD, today, pc, run, g, calls, resp, parked, seen>>

----------------------------------------------------------------------------
(* Bounds of the model *)

\* number of UTC day changes the clock makes
MaxDay == 1
\* largest quantity a /tv body asks for
MaxQty == 2
\* largest position size the venue reports
MaxSize == 2
\* largest number of coroutines suspended at a time
MaxParked == 2

\* wait_position(symbol_, tries=12, ...)
tries == 12

\* tp1_ratio = 0.30, in percent
tp1_ratio == 30

\* body.get("be_offset_bp", 10.0)
be_offset_bp == 10

\* Python's None
NoneV == -1

\* account equity values the venue reports
EquityVals == {50, 100}
\* limits a /guard body may carry
LimitPcts == {20}
LimitUsds == {60}

Sides == {"LONG", "SHORT"}

\* (tick, lot, min_qty) triples the instruments-info endpoint returns
FilterSet ==
    { [tick |-> 1, lot |-> 1, min_qty |-> 1],
      [tick |-> 2, lot |-> 2, min_qty |-> 3] }

\* prices (sl, tp1, tp2) a /tv body carries
PriceSet == { [sl |-> 7, tp1 |-> 9, tp2 |-> 11] }

----------------------------------------------------------------------------
(* Venue transport *)

\* outcome of one HTTP call: accepted, answered with retCode # 0 or a non-JSON
\* body (HTTPException), or no answer at all (requests raises)
HttpOutcomes == {"ok", "rej", "neterr"}

\* a transport that returns the body of a failed request instead of raising
PostNeverRaises(r) == FALSE

\* _post / _get_private raise HTTPException on a non-JSON body or retCode # 0;
\* requests.post / requests.get raise their own exception on a transport error
PostRaises(r) == r # "ok"

\* the exception an outcome raises
ExcOf(r) == IF r = "rej" THEN "HTTPException" ELSE "RequestException"

\* a handler without the try/except around its order request
CatchesNothing(r) == FALSE

\* except HTTPException: (place_tp and the stop-loss chain)
CatchesHTTPException(r) == r = "rej"

\* except Exception: (get_total_equity, autodetect)
CatchesException(r) == r # "ok"

\* status FastAPI answers with when a handler raises
StatusOfExc(r) == IF r = "rej" THEN 400 ELSE 500

\* one venue request in the log of the current /tv run
Call(kind, side, qty, ro, px, r) ==
    [kind |-> kind, side |-> side, qty |-> qty, reduceOnly |-> ro, px |-> px, r |-> r]

InfoCall(kind) == Call(kind, "", 0, FALSE, 0, "ok")

----------------------------------------------------------------------------
(* Market meta + rounding *)

round_to_step(x, step) == (x \div step) * step

fmt_num(x) == x

round_price(p, tick) == fmt_num(round_to_step(p, tick))

round_qty(q, lot, min_qty) ==
    LET q_ == round_to_step(q, lot)
    IN  fmt_num(IF q_ < min_qty THEN min_qty ELSE q_)

Max(a, b) == IF a >= b THEN a ELSE b

----------------------------------------------------------------------------
(* Equity helper for guard *)

\* answer to one wallet-balance request: an exception, an empty list, or a
\* list whose first account carries the equity te
WalletResp ==
    { [st |-> "raise", te |-> 0], [st |-> "empty", te |-> 0] }
        \cup { [st |-> "ok", te |-> v] : v \in EquityVals }

\* get_total_equity: UNIFIED first, then CONTRACT, 0.0 when neither gives a value
get_total_equity(u, c) ==
    IF u.st = "ok" THEN u.te
    ELSE IF c.st = "ok" THEN c.te
    ELSE 0

\* what one call of get_total_equity can return: the value, and whether every
\* wallet-balance request it made raised
EquityReads ==
    { [val |-> get_total_equity(u, c), failed |-> (u.st = "raise" /\ c.st = "raise")] :
        u \in WalletResp, c \in WalletResp }

----------------------------------------------------------------------------
(* Daily loss guard *)

GUARD0 ==
    [enabled |-> FALSE, limit_pct |-> NoneV, limit_usd |-> NoneV,
     baseline |-> NoneV, block |-> FALSE, start_date |-> NoneV]

\* GUARD["baseline"] or eq: None and 0.0 are both falsy
BaselineOr(G, eq) == IF G.baseline = NoneV \/ G.baseline = 0 THEN eq ELSE G.baseline

\* _guard_status_now, given the equity its get_total_equity call returned.
\* drawdown_pct = dd_usd / base * 100 is kept as the pair (dd_usd, base).
guard_status_now(G, eq) ==
    LET base == BaselineOr(G, eq)
        dd_usd == Max(0, base - eq)
    IN  [enabled |-> G.enabled, limit_pct |-> G.limit_pct, limit_usd |-> G.limit_usd,
         baseline |-> base, equity_now |-> eq, drawdown_usd |-> dd_usd,
         block |-> G.block, start_date |-> G.start_date]

\* st["drawdown_pct"] >= float(lim_pct)
DrawdownPctAtLeast(st, lim) ==
    IF st.baseline > 0 THEN st.drawdown_usd * 100 >= lim * st.baseline ELSE 0 >= lim

guard_reset_baseline_keeps(G, eq, day) ==
    [G EXCEPT !.baseline = IF @ = NoneV THEN eq ELSE @,
              !.block = FALSE, !.start_date = day]

\* guard_reset_baseline: the new GUARD, given the equity read and the UTC date
guard_reset_baseline(G, eq, day) ==
    [G EXCEPT !.baseline = eq, !.block = FALSE, !.start_date = day]

\* the two limit tests of guard_check_and_update_block
ShouldBlock(G, st) ==
    \/ (G.limit_pct # NoneV /\ DrawdownPctAtLeast(st, G.limit_pct))
    \/ (G.limit_usd # NoneV /\ st.drawdown_usd >= G.limit_usd)

\* does the evaluation start a new day
DayChanged(G, day) == G.start_date # day

guard_check_when_disabled_too(G, day, eqR, eqS) ==
    LET G1 == IF DayChanged(G, day) THEN guard_reset_baseline(G, eqR, day) ELSE G
        st == guard_status_now(G1, eqS)
        should_block == ShouldBlock(G1, st)
    IN  [G |-> [G1 EXCEPT !.block = should_block],
         ok |-> ~should_block, blocked |-> should_block,
         reads |-> IF DayChanged(G, day) THEN 4 ELSE 2]

\* guard_check_and_update_block: eqR is the equity guard_reset_baseline reads on a
\* day change, eqS the equity the status st is computed from.  Returns the new
\* GUARD, the verdict and the number of get_total_equity calls made.
guard_check_and_update_block(G, day, eqR, eqS) ==
    IF ~G.enabled
    THEN [G |-> G, ok |-> TRUE, blocked |-> FALSE, reads |-> 1]
    ELSE LET G1 == IF DayChanged(G, day) THEN guard_reset_baseline(G, eqR, day) ELSE G
             st == guard_status_now(G1, eqS)
             should_block == ShouldBlock(G1, st)
         IN  [G |-> [G1 EXCEPT !.block = should_block],
              ok |-> ~should_block, blocked |-> should_block,
              reads |-> IF DayChanged(G, day) THEN 4 ELSE 2]

----------------------------------------------------------------------------
(* State *)

\* no request body
REQ0 == [op |-> ""]

\* locals of a handler before the body is read: req is the body of the request
\* being handled, held the size of the position the venue holds on the side
\* opposite to a /tv signal when the signal arrives (0 when it holds none),
\* adj_size the position size /adjust read (NoneV: it got no answer), lst the
\* open orders /cancel_orders or the positions /close_position read, block0 the
\* value of GUARD["block"] when /guard read its body, guard0 the whole GUARD at
\* that moment, eq what get_total_equity() returned to the handler
RUN0 ==
    [req |-> REQ0, held |-> 0, adj_size |-> 0, lst |-> <<>>, block0 |-> FALSE,
     guard0 |-> GUARD0, eq |-> NoneV,
     shape |-> "", side |-> "", qty_in |-> 0, sl |-> 0, tp1 |-> 0, tp2 |-> 0,
     positionIdx |-> 0, tick |-> 0, lot |-> 0, min_qty |-> 0, qty_rounded_f |-> 0,
     i |-> 0, size |-> 0, pos_side |-> "", tp1_qty_f |-> 0, tp2_qty_f |-> 0,
     tp1_resp |-> "None", tp2_resp |-> "None", sl_set |-> FALSE, sl_mode |-> ""]

\* g = guard_check_and_update_block() of the current run; enabled, day_changed and
\* eq_failed record the evaluation's circumstances
G0 ==
    [evaluated |-> FALSE, enabled |-> FALSE, blocked |-> FALSE,
     day_changed |-> FALSE, eq_failed |-> FALSE]

\* an HTTP response of the service
Resp(op, status, ok) ==
    [op |-> op, status |-> status, ok |-> ok, blocked |-> FALSE, error |-> "",
     entryId |-> "null", tp1Id |-> "null", tp2Id |-> "null", sl_set |-> FALSE, sl_mode |-> ""]

RESP0 == Resp("", 0, FALSE)

Init ==
    /\ GUARD = GUARD0
    /\ today = 0
    /\ pc = "idle"
    /\ run = RUN0
    /\ g = G0
    /\ calls = <<>>
    /\ resp = RESP0
    /\ parked = <<>>
    /\ seen = ""

\* the UTC date changes; _today_utc() is read by the guard at the start of a handler
DayRollover ==
    /\ pc = "idle"
    /\ today < MaxDay
    /\ today' = today + 1
    /\ UNCHANGED <<GUARD, pc, run, g, calls, resp>>
    /\ UNCHANGED <<parked, seen>>

\* the handler has returned: its response is delivered and its locals are gone
Return ==
    /\ pc = "ret"
    /\ pc' = "idle"
    /\ run' = RUN0
    /\ g' = G0
    /\ calls' = <<>>
    /\ resp' = RESP0
    /\ UNCHANGED <<GUARD, today>>
    /\ UNCHANGED <<parked, seen>>

----------------------------------------------------------------------------
(* /guard, /guard_status, /guard_reset *)

GuardBodies ==
    [secret : BOOLEAN, reset : BOOLEAN, enable : {"absent", "true", "false"},
     limit_pct : {NoneV} \cup LimitPcts, limit_usd : {NoneV} \cup LimitUsds]

GuardEnableKeepsBlock(G, body, eq, day) ==
    IF body.enable = "absent" THEN G
    ELSE IF body.enable = "true"
         THEN guard_reset_baseline([G EXCEPT !.enabled = TRUE], eq, day)
         ELSE [G EXCEPT !.enabled = FALSE]

\* the enable branch of guard_set
GuardEnable(G, body, eq, day) ==
    IF body.enable = "absent" THEN G
    ELSE IF body.enable = "true"
         THEN guard_reset_baseline([G EXCEPT !.enabled = TRUE], eq, day)
         ELSE [G EXCEPT !.enabled = FALSE, !.block = FALSE]

\* the limit_pct / limit_usd branches of guard_set
GuardLimits(G, body) ==
    [G EXCEPT !.limit_pct = IF body.limit_pct # NoneV THEN body.limit_pct ELSE @,
              !.limit_usd = IF body.limit_usd # NoneV THEN body.limit_usd ELSE @]

guard_set(body, e) ==
    /\ pc = "idle"
    /\ pc' = "ret"
    /\ IF ~body.secret
       THEN /\ resp' = Resp("guard", 401, FALSE)
            /\ UNCHANGED GUARD
       ELSE /\ resp' = Resp("guard", 200, TRUE)
            /\ GUARD' = IF body.reset
                        THEN guard_reset_baseline(GUARD, e.val, today)
                        ELSE GuardLimits(GuardEnable(GUARD, body, e.val, today), body)
    /\ run' = [RUN0 EXCEPT !.req = [op |-> "guard", secret |-> body.secret,
                                      reset |-> body.reset, enable |-> body.enable,
                                      limit_pct |-> body.limit_pct,
                                      limit_usd |-> body.limit_usd],
                            !.block0 = GUARD.block,
                            !.guard0 = GUARD,
                            !.eq = IF body.secret THEN e.val ELSE NoneV]
    /\ UNCHANGED <<today, g, calls>>
    /\ UNCHANGED <<parked, seen>>

guard_status(secret) ==
    /\ pc = "idle"
    /\ pc' = "ret"
    /\ resp' = IF secret THEN Resp("guard_status", 200, TRUE)
               ELSE Resp("guard_status", 401, FALSE)
    /\ run' = [RUN0 EXCEPT !.req = [op |-> "guard_status", secret |-> secret]]
    /\ UNCHANGED <<GUARD, today, g, calls>>
    /\ UNCHANGED <<parked, seen>>

guard_reset(secret, e) ==
    /\ pc = "idle"
    /\ pc' = "ret"
    /\ IF ~secret
       THEN /\ resp' = Resp("guard_reset", 401, FALSE)
            /\ UNCHANGED GUARD
       ELSE /\ resp' = Resp("guard_reset", 200, TRUE)
            /\ GUARD' = guard_reset_baseline(GUARD, e.val, today)
    /\ run' = [RUN0 EXCEPT !.req = [op |-> "guard_reset", secret |-> secret]]
    /\ UNCHANGED <<today, g, calls>>
    /\ UNCHANGED <<parked, seen>>

----------------------------------------------------------------------------
(* /tv *)

\* a /tv request: shape says how far the body gets through parsing
TvShapes == {"badjson", "badsecret", "ping", "missing", "badnum", "ok"}

TvBodies ==
    [shape : TvShapes, side : Sides, qty : 0..MaxQty, px : PriceSet,
     positionIdx : {NoneV}, hedge : BOOLEAN]

\* answers of /v5/position/list: an exception, an empty list, or a first entry
\* (a flat one with side "" and size 0, or an open one)
PositionResp ==
    { [st |-> o, has |-> FALSE, side |-> "", size |-> 0, positionIdx |-> 0] :
        o \in HttpOutcomes }
    \cup { [st |-> "ok", has |-> TRUE, side |-> "", size |-> 0, positionIdx |-> 0] }
    \cup { [st |-> "ok", has |-> TRUE, side |-> sd, size |-> sz, positionIdx |-> ix] :
             sd \in {"Buy", "Sell"}, sz \in 1..MaxSize, ix \in {0, 2} }

\* the handler raises: FastAPI answers with the exception's status
Raise(r) ==
    /\ pc' = "ret"
    /\ resp' = [Resp("tv", StatusOfExc(r), FALSE) EXCEPT !.error = ExcOf(r)]

Log(c) == calls' = Append(calls, c)

\* lines 278-296: json, secret, ping, required fields
TvValidate(shape) ==
    CASE shape = "badjson"   -> Resp("tv", 400, FALSE)
      [] shape = "badsecret" -> Resp("tv", 401, FALSE)
      [] shape = "ping"      -> Resp("tv", 200, TRUE)
      [] shape = "missing"   -> Resp("tv", 400, FALSE)
      [] OTHER               -> RESP0

TvAccept(body, h) ==
    /\ LET v == TvValidate(body.shape)
           rq == [op |-> "tv", shape |-> body.shape]
       IN  IF v # RESP0
           THEN /\ pc' = "ret"
                /\ resp' = v
                /\ run' = [RUN0 EXCEPT !.req = rq]
           ELSE /\ pc' = "guard"
                /\ run' = [RUN0 EXCEPT !.req = rq, !.held = h,
                                       !.shape = body.shape, !.side = body.side,
                                       !.qty_in = body.qty, !.sl = body.px.sl,
                                       !.tp1 = body.px.tp1, !.tp2 = body.px.tp2,
                                       !.positionIdx =
                                           IF body.positionIdx # NoneV THEN body.positionIdx
                                           ELSE IF body.hedge
                                                THEN (IF body.side = "LONG" THEN 1 ELSE 2)
                                                ELSE 0]
                /\ UNCHANGED resp
    /\ UNCHANGED <<GUARD, today, g, calls>>
    /\ UNCHANGED <<parked, seen>>

\* /tv, from the arrival of the request to the end of the validation
TvReceive(body, h) ==
    /\ pc = "idle"
    /\ TvAccept(body, h)

\* a handler that evaluates the guard and ignores the verdict
TvGuardGateOpen(gres) == FALSE

\* if g["blocked"]: return
TvGuardGate(gres) == gres.blocked

\* the wallet-balance log of one evaluation
WalletCalls(n) == [k \in 1..n |-> InfoCall("wallet")]

\* lines 298-315: the guard evaluation, then the floats of the body.  eR and eS are
\* the reads the verdict depends on, fR and fS say whether the two reads made only
\* for the reported status failed.
TvGuard(eR, eS, fR, fS) ==
    /\ pc = "guard"
    /\ LET gres == guard_check_and_update_block(GUARD, today, eR.val, eS.val)
           changed == GUARD.enabled /\ DayChanged(GUARD, today)
           failed ==
               IF ~GUARD.enabled THEN eS.failed
               ELSE /\ eS.failed /\ fS
                    /\ (changed => (eR.failed /\ fR))
       IN  /\ GUARD' = gres.G
           /\ g' = [evaluated |-> TRUE, enabled |-> GUARD.enabled, blocked |-> gres.blocked,
                    day_changed |-> changed, eq_failed |-> failed]
           /\ calls' = calls \o WalletCalls(gres.reads)
           /\ IF TvGuardGate(gres)
              THEN /\ pc' = "ret"
                   /\ resp' = [Resp("tv", 200, FALSE) EXCEPT !.blocked = TRUE]
              ELSE IF run.shape = "badnum"
                   THEN /\ pc' = "ret"
                        /\ resp' = [Resp("tv", 500, FALSE) EXCEPT !.error = "ValueError"]
                   ELSE /\ pc' = "filters"
                        /\ UNCHANGED resp
    /\ UNCHANGED <<today, run>>
    /\ UNCHANGED <<parked, seen>>

\* qty_rounded_f = max(round_to_step(qty_in, lot), min_qty)
QtyRounded(qty_in, lot, min_qty) == Max(round_to_step(qty_in, lot), min_qty)

\* lines 317-327: instruments-info, then the entry quantity
TvFilters(r, f) ==
    /\ pc = "filters"
    /\ Log(InfoCall("filters"))
    /\ IF CatchesException(r)
       THEN /\ pc' = "ret"
            /\ resp' = Resp("tv", 400, FALSE)
            /\ UNCHANGED run
       ELSE /\ pc' = "entry"
            /\ run' = [run EXCEPT !.tick = f.tick, !.lot = f.lot, !.min_qty = f.min_qty,
                                  !.qty_rounded_f = QtyRounded(run.qty_in, f.lot, f.min_qty),
                                  !.qty_in = 0]
            /\ UNCHANGED resp
    /\ UNCHANGED <<GUARD, today, g>>
    /\ UNCHANGED <<parked, seen>>

by_side(side) == IF side = "LONG" THEN "Buy" ELSE "Sell"

exit_side_as_entry(side) == IF side = "LONG" THEN "Buy" ELSE "Sell"

\* "side": "Sell" if side == "LONG" else "Buy"
exit_side(side) == IF side = "LONG" THEN "Sell" ELSE "Buy"

\* lines 329-342: the market entry order
TvEntry(r) ==
    /\ pc = "entry"
    /\ Log(Call("ENTRY", by_side(run.side), fmt_num(run.qty_rounded_f), FALSE, 0, r))
    /\ IF PostRaises(r)
       THEN Raise(r)
       ELSE /\ pc' = "poll"
            /\ UNCHANGED resp
    /\ UNCHANGED <<GUARD, today, run, g>>
    /\ UNCHANGED <<parked, seen>>

\* first entry of the list, or size 0.0 and side ""
PolledSize(p) == IF p.has THEN p.size ELSE 0
PolledSide(p) == IF p.has THEN p.side ELSE ""

\* if size > 0: return size
PollConfirms(size, pos_side, side) == size > 0

\* a loop that goes on until the position shows
PollNeverExhausted(i) == FALSE

\* for i in range(tries): iteration i (counted from 0) is the last one
PollExhausted(i) == i + 1 >= tries

\* lines 345-357: one iteration of wait_position; run.i is the loop counter, gone
\* when wait_position returns.  The position queries are not entered in calls.
TvPoll(p) ==
    /\ pc = "poll"
    /\ run.i < tries
    /\ IF PostRaises(p.st)
       THEN /\ Raise(p.st)
            /\ run' = [run EXCEPT !.i = 0]
       ELSE LET size == PolledSize(p)
                pos_side == PolledSide(p)
                done == PollConfirms(size, pos_side, run.side) \/ PollExhausted(run.i)
            IN  /\ run' = [run EXCEPT !.i = IF done THEN 0 ELSE run.i + 1,
                                      !.pos_side = pos_side,
                                      !.size = IF PollConfirms(size, pos_side, run.side)
                                               THEN size ELSE 0]
                /\ pc' = IF done THEN "detect" ELSE "poll"
                /\ UNCHANGED resp
    /\ UNCHANGED <<GUARD, today, g, calls>>
    /\ UNCHANGED <<parked, seen>>

\* lines 359-368: positionIdx of the first position, when it is 1 or 2
DetectIdx(p, positionIdx) ==
    IF CatchesException(p.st) THEN positionIdx
    ELSE IF p.has /\ p.positionIdx \in {1, 2} THEN p.positionIdx
    ELSE positionIdx

tp_split_fold(qty_rounded_f, lot, min_qty) ==
    LET a1 == round_to_step((qty_rounded_f * tp1_ratio) \div 100, lot)
        a2 == round_to_step(qty_rounded_f - a1, lot)
    IN  IF a1 < min_qty
        THEN [tp1 |-> 0, tp2 |-> qty_rounded_f]
        ELSE [tp1 |-> a1, tp2 |-> a2]

\* lines 370-380: the TP quantity split
tp_split(qty_rounded_f, lot, min_qty) ==
    LET a1 == round_to_step((qty_rounded_f * tp1_ratio) \div 100, lot)
        a2 == round_to_step(qty_rounded_f - a1, lot)
    IN  IF a1 < min_qty
        THEN IF qty_rounded_f >= 2 * min_qty
             THEN [tp1 |-> round_to_step(min_qty, lot),
                   tp2 |-> round_to_step(qty_rounded_f - round_to_step(min_qty, lot), lot)]
             ELSE [tp1 |-> 0, tp2 |-> qty_rounded_f]
        ELSE [tp1 |-> a1, tp2 |-> a2]

\* lines 359-381: hedge index detection and the TP split
TvDetect(p) ==
    /\ pc = "detect"
    /\ Log(InfoCall("detect"))
    /\ LET sp == tp_split(run.qty_rounded_f, run.lot, run.min_qty)
       IN  run' = [run EXCEPT !.positionIdx = DetectIdx(p, run.positionIdx),
                              !.tp1_qty_f = sp.tp1, !.tp2_qty_f = sp.tp2]
    /\ pc' = "tp1"
    /\ UNCHANGED <<GUARD, today, g, resp>>
    /\ UNCHANGED <<parked, seen>>

\* if qf <= 0: return None
TpSkipped(qf) == qf <= 0

\* the order place_tp builds
TpOrder(suffix, px, qf, r) ==
    Call(suffix, exit_side(run.side), round_qty(qf, run.lot, run.min_qty), TRUE,
         round_price(px, run.tick), r)

\* what place_tp returns: the response, or None
TpResp(qf, r) == IF TpSkipped(qf) \/ r # "ok" THEN "None" ELSE "resp"

\* lines 384-408: place_tp(tp1, tp1_qty_f, "TP1")
TvTP1(r) ==
    /\ pc = "tp1"
    /\ IF TpSkipped(run.tp1_qty_f)
       THEN /\ pc' = "tp2"
            /\ UNCHANGED <<run, calls, resp>>
       ELSE /\ Log(TpOrder("TP1", run.tp1, run.tp1_qty_f, r))
            /\ IF PostRaises(r) /\ ~CatchesHTTPException(r)
               THEN /\ Raise(r)
                    /\ UNCHANGED run
               ELSE /\ pc' = "tp2"
                    /\ run' = [run EXCEPT !.tp1_resp = TpResp(run.tp1_qty_f, r)]
                    /\ UNCHANGED resp
    /\ UNCHANGED <<GUARD, today, g>>
    /\ UNCHANGED <<parked, seen>>

\* lines 384-409: place_tp(tp2, tp2_qty_f, "TP2")
TvTP2(r) ==
    /\ pc = "tp2"
    /\ IF TpSkipped(run.tp2_qty_f)
       THEN /\ pc' = "sl_mark"
            /\ UNCHANGED <<run, calls, resp>>
       ELSE /\ Log(TpOrder("TP2", run.tp2, run.tp2_qty_f, r))
            /\ IF PostRaises(r) /\ ~CatchesHTTPException(r)
               THEN /\ Raise(r)
                    /\ UNCHANGED run
               ELSE /\ pc' = "sl_mark"
                    /\ run' = [run EXCEPT !.tp2_resp = TpResp(run.tp2_qty_f, r)]
                    /\ UNCHANGED resp
    /\ UNCHANGED <<GUARD, today, g>>
    /\ UNCHANGED <<parked, seen>>

\* lines 467-474: the result of a completed run
TvResult(rn, sl_set, sl_mode) ==
    [Resp("tv", 200, TRUE) EXCEPT
        !.entryId = "orderId",
        !.tp1Id = IF rn.tp1_resp # "None" THEN "orderId" ELSE "null",
        !.tp2Id = IF rn.tp2_resp # "None" THEN "orderId" ELSE "null",
        !.sl_set = sl_set, !.sl_mode = sl_mode]

\* the run returns with (sl_set, sl_mode)
Finish(sl_set, sl_mode) ==
    /\ pc' = "ret"
    /\ run' = [run EXCEPT !.sl_set = sl_set, !.sl_mode = sl_mode]
    /\ resp' = TvResult(run, sl_set, sl_mode)

\* sl_set, sl_mode after a position-level request that succeeded (lines 424, 429, 437)
SlPosition == [sl_set |-> TRUE, sl_mode |-> "position"]

\* a fallback branch that sets sl_set and leaves sl_mode as initialised
SlFallbackKeepsMode(r) == [sl_set |-> r = "ok", sl_mode |-> "position"]

\* sl_set, sl_mode after the fallback order (lines 457-465)
SlFallback(r) ==
    IF r = "ok" THEN [sl_set |-> TRUE, sl_mode |-> "stopMarket"]
    ELSE [sl_set |-> FALSE, sl_mode |-> "none"]

\* the position-level stop request
StopCall(kind, r) == Call(kind, "", 0, FALSE, round_price(run.sl, run.tick), r)

\* lines 411-431: trading-stop with slTriggerBy MarkPrice
TvSLMark(r) ==
    /\ pc = "sl_mark"
    /\ Log(StopCall("SL_MARK", r))
    /\ IF ~PostRaises(r) THEN Finish(SlPosition.sl_set, SlPosition.sl_mode)
       ELSE IF CatchesHTTPException(r)
            THEN /\ pc' = "sl_last"
                 /\ UNCHANGED <<run, resp>>
            ELSE /\ Raise(r)
                 /\ UNCHANGED run
    /\ UNCHANGED <<GUARD, today, g>>
    /\ UNCHANGED <<parked, seen>>

\* lines 432-439: trading-stop with slTriggerBy LastPrice
TvSLLast(r) ==
    /\ pc = "sl_last"
    /\ Log(StopCall("SL_LAST", r))
    /\ IF ~PostRaises(r) THEN Finish(SlPosition.sl_set, SlPosition.sl_mode)
       ELSE IF CatchesHTTPException(r)
            THEN /\ pc' = "sl_fb"
                 /\ UNCHANGED <<run, resp>>
            ELSE /\ Raise(r)
                 /\ UNCHANGED run
    /\ UNCHANGED <<GUARD, today, g>>
    /\ UNCHANGED <<parked, seen>>

\* "qty": qty_str of the fallback stop-market order
FallbackQty(rn) == fmt_num(rn.qty_rounded_f)

\* lines 440-465: the reduce-only conditional stop-market order
TvSLFallback(r) ==
    /\ pc = "sl_fb"
    /\ Log(Call("SLB", exit_side(run.side), FallbackQty(run), TRUE,
                round_price(run.sl, run.tick), r))
    /\ IF PostRaises(r) /\ ~CatchesHTTPException(r)
       THEN /\ Raise(r)
            /\ UNCHANGED run
       ELSE Finish(SlFallback(r).sl_set, SlFallback(r).sl_mode)
    /\ UNCHANGED <<GUARD, today, g>>
    /\ UNCHANGED <<parked, seen>>

----------------------------------------------------------------------------
(* /adjust *)

\* str.upper() on the side strings
Upper(s) ==
    CASE s = "Buy"  -> "BUY"
      [] s = "Sell" -> "SELL"
      [] OTHER      -> s

AdjustActions == {"be", "set_sl", "cancel_sl", "trail", "cancel_trail"}

\* an /adjust body: the action (other: none of the five), an explicit positionIdx
\* or none, and the sl / trail_dist value the action reads
AdjustBodies ==
    [secret : BOOLEAN, action : AdjustActions \cup {"other"}, positionIdx : {NoneV, 1},
     value : {7}]

\* answers of instruments-info: the request failed, or the filters of the symbol
FilterAnswers ==
    { [st |-> "raise", tick |-> 0, lot |-> 0, min_qty |-> 0] }
    \cup { [st |-> "ok", tick |-> f.tick, lot |-> f.lot, min_qty |-> f.min_qty] :
             f \in FilterSet }

\* answers of /v5/position/list in one-way mode
PositionNow == { p \in PositionResp : p.positionIdx = 0 }

\* avgPrice of an open position
AvgPrices == {20000}

\* autodetect_position_idx(symbol, explicit_idx)
autodetect_position_idx(explicit_idx, p) ==
    IF explicit_idx \in {0, 1, 2} THEN explicit_idx
    ELSE IF CatchesException(p.st) \/ ~p.has THEN 0
    ELSE IF p.positionIdx \in {0, 1, 2} THEN p.positionIdx ELSE 0

\* size = float((pos or {}).get("size") or 0)
AdjustSize(p) == IF p.has THEN p.size ELSE 0

NoPositionNever(size) == FALSE

\* if size <= 0: return "no position"
NoPosition(size) == size <= 0

\* the "be" price: entry * (1 +- bp / 10000), the sign by the side of the position
be_price(entry, side) ==
    IF Upper(side) \in {"BUY", "LONG"}
    THEN (entry * (10000 + be_offset_bp)) \div 10000
    ELSE (entry * (10000 - be_offset_bp)) \div 10000

\* the stopLoss / trailingStop value of the trading-stop request of an action
AdjustValue(act, body, p, avg, tick) ==
    CASE act = "be"           -> round_price(be_price(avg, p.side), tick)
      [] act = "set_sl"       -> round_price(body.value, tick)
      [] act = "trail"        -> fmt_num(body.value)
      [] OTHER                -> 0

\* answers the position query inside autodetect_position_idx can get
DetectAnswers ==
    { p \in PositionResp : p.st # "neterr" /\ (p.has => (p.side = "Buy" /\ p.size = 1)) }

AdminFrameClearsBlock ==
    /\ GUARD' = [GUARD EXCEPT !.block = FALSE]
    /\ UNCHANGED <<today, g>>

\* /adjust, /cancel_all, /cancel_orders and /close_position neither read nor
\* assign GUARD
AdminFrame == UNCHANGED <<GUARD, today, g>>

\* the handler returns: the request, what it read, the venue requests it made
\* and its answer
AdjustReturn(body, idx, size, cs, rsp) ==
    /\ pc' = "ret"
    /\ run' = [RUN0 EXCEPT !.req = [op |-> "adjust", secret |-> body.secret,
                                      action |-> body.action],
                            !.positionIdx = idx,
                            !.adj_size = size]
    /\ calls' = cs
    /\ resp' = rsp
    /\ AdminFrame

\* /adjust: p1 answers the position query of autodetect_position_idx, fa the
\* instruments-info request, p2 the position query of line 574, r the
\* trading-stop request
adjust(body) ==
    /\ pc = "idle"
    /\ IF ~body.secret
       THEN AdjustReturn(body, 0, NoneV, <<>>, Resp("adjust", 401, FALSE))
       ELSE \E p1 \in DetectAnswers, fa \in FilterAnswers :
         LET idx == autodetect_position_idx(body.positionIdx, p1)
             detect == IF body.positionIdx \in {0, 1, 2} THEN <<>>
                       ELSE <<InfoCall("detect")>>
             read == detect \o <<InfoCall("filters"), InfoCall("position")>>
         IN  IF fa.st # "ok"
             THEN AdjustReturn(body, idx, NoneV, detect \o <<InfoCall("filters")>>,
                               [Resp("adjust", 500, FALSE) EXCEPT !.error = "Exception"])
             ELSE \E p2 \in PositionNow :
               IF PostRaises(p2.st)
               THEN AdjustReturn(body, idx, NoneV, read,
                                 [Resp("adjust", StatusOfExc(p2.st), FALSE)
                                     EXCEPT !.error = ExcOf(p2.st)])
               ELSE IF NoPosition(AdjustSize(p2))
               THEN AdjustReturn(body, idx, AdjustSize(p2), read,
                                 [Resp("adjust", 400, FALSE) EXCEPT !.error = "no position"])
               ELSE IF body.action \notin AdjustActions
               THEN AdjustReturn(body, idx, AdjustSize(p2), read,
                                 [Resp("adjust", 400, FALSE)
                                     EXCEPT !.error = "unknown action"])
               ELSE \E avg \in AvgPrices, r \in HttpOutcomes :
                 AdjustReturn(body, idx, AdjustSize(p2),
                              read \o <<Call("TRADING_STOP", "", 0, FALSE,
                                             AdjustValue(body.action, body, p2, avg, fa.tick),
                                             r)>>,
                              IF PostRaises(r)
                              THEN [Resp("adjust", StatusOfExc(r), FALSE)
                                       EXCEPT !.error = ExcOf(r)]
                              ELSE Resp("adjust", 200, TRUE))
    /\ UNCHANGED <<parked, seen>>

----------------------------------------------------------------------------
(* Order management utils *)

\* the answer of a handler whose venue request raised
Raised(op, r) == [Resp(op, StatusOfExc(r), FALSE) EXCEPT !.error = ExcOf(r)]

\* a loop of venue requests, each inside try / except HTTPException: rs[k] is
\* the outcome of the k-th request; the loop ends at the first request whose
\* exception the except clause does not catch
Aborts(r) == PostRaises(r) /\ ~CatchesHTTPException(r)
Aborted(rs) == \E k \in DOMAIN rs : Aborts(rs[k])
Made(rs) ==
    IF Aborted(rs)
    THEN CHOOSE k \in DOMAIN rs : Aborts(rs[k]) /\ \A j \in 1..(k - 1) : ~Aborts(rs[j])
    ELSE Len(rs)
AbortOutcome(rs) == rs[Made(rs)]

\* /cancel_all
cancel_all(secret, r) ==
    /\ pc = "idle"
    /\ pc' = "ret"
    /\ run' = [RUN0 EXCEPT !.req = [op |-> "cancel_all", secret |-> secret]]
    /\ IF ~secret
       THEN /\ resp' = Resp("cancel_all", 401, FALSE)
            /\ calls' = <<>>
       ELSE /\ resp' = IF PostRaises(r) THEN Raised("cancel_all", r)
                       ELSE Resp("cancel_all", 200, TRUE)
            /\ calls' = <<Call("CANCEL_ALL", "", 0, FALSE, 0, r)>>
    /\ AdminFrame
    /\ UNCHANGED <<parked, seen>>

\* the side /cancel_orders filters by ("": none)
CancelSide(side_in) ==
    IF side_in = "" THEN ""
    ELSE IF Upper(side_in) \in {"LONG", "SHORT"}
         THEN (IF Upper(side_in) = "LONG" THEN "Sell" ELSE "Buy")
         ELSE (IF Upper(side_in) = "BUY" THEN "Buy" ELSE "Sell")

CancelBodies ==
    [secret : BOOLEAN, side : {"", "Sell", "LONG", "SHORT"}, reduceOnlyOnly : BOOLEAN]

\* open orders of the symbol: a reduce-only Sell order (the TP of a long), a Buy
\* order that is not reduce-only
OpenOrderLists ==
    { <<>>,
      <<[side |-> "Sell", reduceOnly |-> TRUE]>>,
      <<[side |-> "Sell", reduceOnly |-> TRUE], [side |-> "Buy", reduceOnly |-> FALSE]>> }

\* lines 721-727: the orders the filters keep
to_cancel(lst, side, reduce_only_only) ==
    LET Keep(o) == /\ (side # "" => o.side = side)
                   /\ (reduce_only_only => o.reduceOnly)
    IN  SelectSeq(lst, Keep)

CancelReturn(body, lst, cs, rsp) ==
    /\ pc' = "ret"
    /\ run' = [RUN0 EXCEPT !.req = [op |-> "cancel_orders", secret |-> body.secret,
                                      side |-> body.side,
                                      reduceOnlyOnly |-> body.reduceOnlyOnly],
                            !.lst = lst]
    /\ calls' = cs
    /\ resp' = rsp
    /\ AdminFrame

\* /cancel_orders
cancel_orders(body) ==
    /\ pc = "idle"
    /\ LET side == CancelSide(body.side)
       IN  IF ~body.secret
           THEN CancelReturn(body, <<>>, <<>>, Resp("cancel_orders", 401, FALSE))
           ELSE IF ~body.reduceOnlyOnly /\ side = ""
           THEN \E r \in HttpOutcomes :
                  CancelReturn(body, <<>>, <<Call("CANCEL_ALL", "", 0, FALSE, 0, r)>>,
                               IF PostRaises(r) THEN Raised("cancel_orders", r)
                               ELSE Resp("cancel_orders", 200, TRUE))
           ELSE \E q \in HttpOutcomes :
                  IF PostRaises(q)
                  THEN CancelReturn(body, <<>>, <<InfoCall("orders")>>,
                                    Raised("cancel_orders", q))
                  ELSE \E lst \in OpenOrderLists :
                    LET sel == to_cancel(lst, side, body.reduceOnlyOnly)
                    IN  \E rs \in [1..Len(sel) -> HttpOutcomes] :
                          CancelReturn(body, lst,
                              <<InfoCall("orders")>> \o
                              [k \in 1..Made(rs) |->
                                  Call("CANCEL", sel[k].side, 0, sel[k].reduceOnly, 0, rs[k])],
                              IF Aborted(rs) THEN Raised("cancel_orders", AbortOutcome(rs))
                              ELSE Resp("cancel_orders", 200, TRUE))
    /\ UNCHANGED <<parked, seen>>

CloseBodies == [secret : BOOLEAN, which : {"both", "long", "short"}]

\* answers of /v5/position/list: no entry, the entry of a one-way symbol, the two
\* entries of a hedge-mode symbol (a leg may be flat)
PositionLists ==
    { <<>> }
    \cup { <<[side |-> sd, size |-> sz, positionIdx |-> 0]>> :
             sd \in {"Buy", "Sell"}, sz \in 1..MaxSize }
    \cup { <<[side |-> "Buy", size |-> a, positionIdx |-> 1],
             [side |-> "Sell", size |-> b, positionIdx |-> 2]>> :
             a \in 0..MaxSize, b \in 0..MaxSize }

\* lines 767-776: the positions the loop does not skip
Selected(plist, which) ==
    LET Keep(p) == /\ ~(p.size <= 0)
                   /\ ~(which = "long" /\ Upper(p.side) # "Buy")
                   /\ ~(which = "short" /\ Upper(p.side) # "Sell")
    IN  SelectSeq(plist, Keep)

\* close_side = "Sell" if pos_side == "Buy" else "Buy"
close_side(pos_side) == IF pos_side = "Buy" THEN "Sell" ELSE "Buy"

\* the closing order of one position
CloseOrder(p, lot, min_qty, r) ==
    Call("CLOSE", close_side(Upper(p.side)), round_qty(p.size, lot, min_qty), TRUE, 0, r)

CloseReturn(body, fa, plist, cs, rsp) ==
    /\ pc' = "ret"
    /\ run' = [RUN0 EXCEPT !.req = [op |-> "close_position", secret |-> body.secret,
                                      which |-> body.which],
                            !.lot = fa.lot,
                            !.min_qty = fa.min_qty,
                            !.lst = plist]
    /\ calls' = cs
    /\ resp' = rsp
    /\ AdminFrame

\* /close_position
close_position(body) ==
    /\ pc = "idle"
    /\ IF ~body.secret
       THEN CloseReturn(body, [lot |-> 0, min_qty |-> 0], <<>>, <<>>,
                        Resp("close_position", 401, FALSE))
       ELSE \E fa \in FilterAnswers :
         IF fa.st # "ok"
         THEN CloseReturn(body, fa, <<>>, <<InfoCall("filters")>>,
                          [Resp("close_position", 500, FALSE) EXCEPT !.error = "Exception"])
         ELSE \E q \in HttpOutcomes :
           LET read == <<InfoCall("filters"), InfoCall("positions")>>
           IN  IF PostRaises(q)
               THEN CloseReturn(body, fa, <<>>, read, Raised("close_position", q))
               ELSE \E plist \in PositionLists :
                 IF plist = <<>>
                 THEN CloseReturn(body, fa, plist, read,
                                  [Resp("close_position", 400, FALSE)
                                      EXCEPT !.error = "no position"])
                 ELSE LET sel == Selected(plist, body.which)
                      IN  \E rs \in [1..Len(sel) -> HttpOutcomes] :
                            CloseReturn(body, fa, plist,
                                read \o [k \in 1..Made(rs) |->
                                           CloseOrder(sel[k], fa.lot, fa.min_qty, rs[k])],
                                IF Aborted(rs)
                                THEN Raised("close_position", AbortOutcome(rs))
                                ELSE Resp("close_position", 200, TRUE))
    /\ UNCHANGED <<parked, seen>>

----------------------------------------------------------------------------
(* Specification *)

Next ==
    \/ DayRollover
    \/ Return
    \/ \E body \in GuardBodies, e \in EquityReads : guard_set(body, e)
    \/ \E secret \in BOOLEAN : guard_status(secret)
    \/ \E secret \in BOOLEAN, e \in EquityReads : guard_reset(secret, e)
    \/ \E body \in TvBodies : TvReceive(body, 0)
    \/ \E eR \in EquityReads, eS \in EquityReads, fR \in BOOLEAN, fS \in BOOLEAN :
          TvGuard(eR, eS, fR, fS)
    \/ \E r \in HttpOutcomes, f \in FilterSet : TvFilters(r, f)
    \/ \E r \in HttpOutcomes : TvEntry(r)
    \/ \E p \in PositionResp : TvPoll(p)
    \/ \E p \in PositionResp : TvDetect(p)
    \/ \E r \in HttpOutcomes : TvTP1(r)
    \/ \E r \in HttpOutcomes : TvTP2(r)
    \/ \E r \in HttpOutcomes : TvSLMark(r)
    \/ \E r \in HttpOutcomes : TvSLLast(r)
    \/ \E r \in HttpOutcomes : TvSLFallback(r)
    \/ \E body \in AdjustBodies : adjust(body)
    \/ \E secret \in BOOLEAN, r \in HttpOutcomes : cancel_all(secret, r)
    \/ \E body \in CancelBodies : cancel_orders(body)
    \/ \E body \in CloseBodies : close_position(body)

Spec == Init /\ [][Next]_vars

\* /tv runs against a venue that may hold a position of size 1..MaxSize on the
\* side opposite to the signal when the signal arrives
NextFlip ==
    \/ Return
    \/ \E body \in TvBodies, h \in 0..MaxSize : TvReceive(body, h)
    \/ \E eR \in EquityReads, eS \in EquityReads, fR \in BOOLEAN, fS \in BOOLEAN :
          TvGuard(eR, eS, fR, fS)
    \/ \E r \in HttpOutcomes, f \in FilterSet : TvFilters(r, f)
    \/ \E r \in HttpOutcomes : TvEntry(r)
    \/ \E p \in PositionResp : TvPoll(p)
    \/ \E p \in PositionResp : TvDetect(p)
    \/ \E r \in HttpOutcomes : TvTP1(r)
    \/ \E r \in HttpOutcomes : TvTP2(r)
    \/ \E r \in HttpOutcomes : TvSLMark(r)
    \/ \E r \in HttpOutcomes : TvSLLast(r)
    \/ \E r \in HttpOutcomes : TvSLFallback(r)

SpecFlip == Init /\ [][NextFlip]_vars

\* the handler has returned, and the signal it handled is the latest one seen:
\* seen is its key (strategy and symbol are fixed here, the key is the direction)
ReturnSeen ==
    /\ pc = "ret"
    /\ pc' = "idle"
    /\ run' = RUN0
    /\ g' = G0
    /\ calls' = <<>>
    /\ resp' = RESP0
    /\ seen' = IF run.req.op = "tv" /\ run.shape = "ok" THEN run.side ELSE seen
    /\ UNCHANGED <<GUARD, today, parked>>

\* the dedup window after the latest signal is over
WindowElapses ==
    /\ pc = "idle"
    /\ seen # ""
    /\ seen' = ""
    /\ UNCHANGED <<GUARD, today, pc, run, g, calls, resp, parked>>

\* /tv signals one after another, with the latest signal remembered while its
\* dedup window is open
NextDedup ==
    \/ ReturnSeen
    \/ WindowElapses
    \/ \E body \in TvBodies : TvReceive(body, 0)
    \/ \E eR \in EquityReads, eS \in EquityReads, fR \in BOOLEAN, fS \in BOOLEAN :
          TvGuard(eR, eS, fR, fS)
    \/ \E r \in HttpOutcomes, f \in FilterSet : TvFilters(r, f)
    \/ \E r \in HttpOutcomes : TvEntry(r)
    \/ \E p \in PositionResp : TvPoll(p)
    \/ \E p \in PositionResp : TvDetect(p)
    \/ \E r \in HttpOutcomes : TvTP1(r)
    \/ \E r \in HttpOutcomes : TvTP2(r)
    \/ \E r \in HttpOutcomes : TvSLMark(r)
    \/ \E r \in HttpOutcomes : TvSLLast(r)
    \/ \E r \in HttpOutcomes : TvSLFallback(r)

SpecDedup == Init /\ [][NextDedup]_vars

----------------------------------------------------------------------------
(* The event loop: /tv coroutines of one process *)

\* a coroutine the loop has suspended: where it stopped, and its locals
Task(p, rn, gv, cs, rsp) == [pc |-> p, run |-> rn, g |-> gv, calls |-> cs, resp |-> rsp]

YieldsAtVenueCalls(p) == p \notin {"idle", "ret"}

\* where tv_webhook gives the event loop back: at `await req.body()` (line 278)
\* and nowhere else; requests.post / requests.get and time.sleep are plain calls
Yields(p) == p = "body"

\* a /tv request is routed to tv_webhook: a coroutine starts and awaits the body
TvArrive ==
    /\ Len(parked) < MaxParked
    /\ parked' = Append(parked, Task("body", RUN0, G0, <<>>, RESP0))
    /\ UNCHANGED <<GUARD, today, pc, run, g, calls, resp, seen>>

\* the running coroutine reaches a point where it yields, and the loop parks it
Suspend ==
    /\ pc # "idle"
    /\ Yields(pc)
    /\ Len(parked) < MaxParked
    /\ parked' = Append(parked, Task(pc, run, g, calls, resp))
    /\ pc' = "idle"
    /\ run' = RUN0
    /\ g' = G0
    /\ calls' = <<>>
    /\ resp' = RESP0
    /\ UNCHANGED <<GUARD, today, seen>>

\* no coroutine is running: the loop resumes one of those it has parked
Resume(k) ==
    /\ pc = "idle"
    /\ k \in DOMAIN parked
    /\ pc' = parked[k].pc
    /\ run' = parked[k].run
    /\ g' = parked[k].g
    /\ calls' = parked[k].calls
    /\ resp' = parked[k].resp
    /\ parked' = [j \in 1..(Len(parked) - 1) |-> IF j < k THEN parked[j] ELSE parked[j + 1]]
    /\ UNCHANGED <<GUARD, today, seen>>

\* the body has arrived: the coroutine goes on from line 279
TvBodyRead(body) ==
    /\ pc = "body"
    /\ TvAccept(body, 0)

NextLoop ==
    \/ TvArrive
    \/ Suspend
    \/ \E k \in 1..MaxParked : Resume(k)
    \/ Return
    \/ \E body \in TvBodies : TvBodyRead(body)
    \/ \E eR \in EquityReads, eS \in EquityReads, fR \in BOOLEAN, fS \in BOOLEAN :
          TvGuard(eR, eS, fR, fS)
    \/ \E r \in HttpOutcomes, f \in FilterSet : TvFilters(r, f)
    \/ \E r \in HttpOutcomes : TvEntry(r)
    \/ \E p \in PositionResp : TvPoll(p)
    \/ \E p \in PositionResp : TvDetect(p)
    \/ \E r \in HttpOutcomes : TvTP1(r)
    \/ \E r \in HttpOutcomes : TvTP2(r)
    \/ \E r \in HttpOutcomes : TvSLMark(r)
    \/ \E r \in HttpOutcomes : TvSLLast(r)
    \/ \E r \in HttpOutcomes : TvSLFallback(r)

SpecLoop == Init /\ [][NextLoop]_vars

----------------------------------------------------------------------------
(* Properties *)

OrderKinds == {"ENTRY", "TP1", "TP2", "SL_MARK", "SL_LAST", "SLB"}
ChildKinds == {"TP1", "TP2", "SL_MARK", "SL_LAST", "SLB"}

\* the indices of the requests of one kind in the log of the run
At(kind) == { i \in DOMAIN calls : calls[i].kind = kind }
Sent(kind) == At(kind) # {}
Accepted(kind) == \E i \in At(kind) : calls[i].r = "ok"
Rejected(kind) == \E i \in At(kind) : calls[i].r = "rej"
NoTransportError == \A i \in DOMAIN calls : calls[i].r # "neterr"

\* the /tv run has returned its result (lines 467-474)
Returned == pc = "ret" /\ resp.op = "tv" /\ resp.ok /\ resp.entryId # "null"

\* C1: once an enabled evaluation has returned blocked (block is set, and neither a
\* reset nor a day change has happened since), the next evaluation returns blocked
\* too, whatever equity it reads.
C1_OnceBlockedStaysBlocked ==
    [][(pc = "guard" /\ GUARD.enabled /\ GUARD.block /\ GUARD.start_date = today)
         => g'.blocked]_vars

\* C2: an enabled evaluation whose every wallet-balance request raised reports
\* blocked (stated for the guard states that have a percentage limit configured).
C2_FailClosed ==
    (g.evaluated /\ g.enabled /\ g.eq_failed /\ GUARD.limit_pct # NoneV) => g.blocked

\* C3: every order request of a /tv run comes after the guard evaluation (its
\* wallet-balance read is earlier in the log), and a run whose evaluation returned
\* blocked sends no entry, TP or stop request.
C3_GuardBeforeEntry ==
    /\ \A i \in DOMAIN calls :
          calls[i].kind \in OrderKinds =>
              /\ g.evaluated
              /\ \E j \in 1..(i - 1) : calls[j].kind = "wallet"
    /\ g.blocked => /\ pc = "ret"
                    /\ \A i \in DOMAIN calls : calls[i].kind \notin OrderKinds

C3_Witness ==
    /\ pc = "ret" /\ g.evaluated /\ g.blocked /\ resp.blocked
    /\ Sent("wallet") /\ ~Sent("ENTRY")

\* C4: a run whose entry order was accepted ends with a result and has sent at
\* least one position-level stop request.
C4_StopAlwaysAttempted ==
    (pc = "ret" /\ Accepted("ENTRY")) => (Returned /\ Sent("SL_MARK"))

\* C5: every TP / stop request of a run comes after an accepted entry order, and a
\* run whose entry order was not accepted has failed and sent no TP or stop request.
C5_EntryBeforeChildren ==
    /\ \A i \in DOMAIN calls :
          calls[i].kind \in ChildKinds =>
              \E j \in 1..(i - 1) : calls[j].kind = "ENTRY" /\ calls[j].r = "ok"
    /\ (Sent("ENTRY") /\ ~Accepted("ENTRY")) =>
          /\ pc = "ret" /\ ~resp.ok /\ resp.status \in {400, 500}
          /\ \A i \in DOMAIN calls : calls[i].kind \notin ChildKinds

C5_Witness ==
    /\ pc = "ret" /\ Rejected("ENTRY") /\ ~resp.ok
    /\ calls[Len(calls)].kind = "ENTRY"

\* C6: a run that ended with no transport error and with a rejected TP leg has
\* still sent TP2 (when it was TP1 that was rejected) and the stop request and
\* returned a result; a result has tp1Id / tp2Id non-null exactly for the legs the
\* venue accepted.
C6_TpRejectionNotFatal ==
    /\ (pc = "ret" /\ NoTransportError /\ (Rejected("TP1") \/ Rejected("TP2"))) =>
          /\ Rejected("TP1") => Sent("TP2")
          /\ Sent("SL_MARK")
          /\ Returned
    /\ Returned =>
          /\ (resp.tp1Id # "null") <=> Accepted("TP1")
          /\ (resp.tp2Id # "null") <=> Accepted("TP2")

C6_Witness ==
    /\ Returned
    /\ Rejected("TP1") /\ Accepted("TP2") /\ Sent("SL_MARK")
    /\ resp.tp1Id = "null" /\ resp.tp2Id # "null"

\* C7: the stop-loss requests are sent in the order MarkPrice, LastPrice, fallback,
\* each only after the previous one was rejected and none after a success; the
\* result has sl_mode position / stopMarket / none according to which succeeded,
\* and sl_set iff sl_mode is not none.
C7_StopChain ==
    /\ \A i \in At("SL_LAST") :
          i > 1 /\ calls[i - 1].kind = "SL_MARK" /\ calls[i - 1].r = "rej"
    /\ \A i \in At("SLB") :
          /\ i > 2
          /\ calls[i - 1].kind = "SL_LAST" /\ calls[i - 1].r = "rej"
          /\ calls[i - 2].kind = "SL_MARK" /\ calls[i - 2].r = "rej"
    /\ \A i \in At("SL_MARK") \cup At("SL_LAST") \cup At("SLB") :
          /\ calls[i].r = "ok" => i = Len(calls)
          /\ calls[i].kind = "SLB" => i = Len(calls)
    /\ Cardinality(At("SL_MARK")) <= 1
    /\ Returned =>
          /\ resp.sl_mode = "position" <=> (Accepted("SL_MARK") \/ Accepted("SL_LAST"))
          /\ resp.sl_mode = "stopMarket" <=> Accepted("SLB")
          /\ resp.sl_mode = "none" <=>
                (Rejected("SL_MARK") /\ Rejected("SL_LAST") /\ Rejected("SLB"))
          /\ resp.sl_set <=> resp.sl_mode # "none"
          /\ resp.sl_mode \in {"position", "stopMarket", "none"}

C7_Witness ==
    /\ Returned /\ resp.sl_set /\ resp.sl_mode = "stopMarket"
    /\ Rejected("SL_MARK") /\ Rejected("SL_LAST") /\ Accepted("SLB")

\* C8: the fallback stop-market order carries the position size the fill poll read
\* from the venue.
C8_FallbackQtyIsFilledSize ==
    \A i \in At("SLB") : run.size > 0 => calls[i].qty = run.size

\* C9: a run whose fill poll used up its attempts (wait_position returned 0) sends
\* no TP1 and no TP2 order.
C9_NoTpAfterFillTimeout ==
    (Sent("detect") /\ run.size = 0) => (~Sent("TP1") /\ ~Sent("TP2"))

\* C10: the fill poll ends as confirmed only on a position of the requested side.
C10_PollConfirmsRequestedSide ==
    run.size > 0 => run.pos_side = by_side(run.side)

\* C11: the fill poll asks the venue at most `tries` times: the attempt counter
\* of a run that is polling is below `tries`, every query that leaves the run
\* polling advances it by one, and the query made at the last attempt ends the poll
\* whatever the venue answers.
C11_PollTerminates ==
    /\ [](pc = "poll" => run.i < tries)
    /\ [][(pc = "poll" /\ pc' = "poll") => run'.i = run.i + 1]_vars
    /\ [][(pc = "poll" /\ run.i = tries - 1) => pc' # "poll"]_vars

\* the poll used up all its attempts without seeing a position and the run went on
C11_Witness ==
    pc = "detect" /\ run.size = 0 /\ Accepted("ENTRY") /\ resp = RESP0

\* C12: when the venue holds a position on the side opposite to the signal, the
\* entry order's quantity is the requested quantity (rounded to the lot step) plus
\* the size of that position.
C12_FlipQty ==
    \A i \in At("ENTRY") : run.held > 0 => calls[i].qty = run.qty_rounded_f + run.held

\* the quantity of the order of one kind in the log of the run, 0 when none was sent
QtyOf(kind) == IF Sent(kind) THEN calls[CHOOSE i \in At(kind) : TRUE].qty ELSE 0

\* C13: the quantities of the TP1 and TP2 orders a run has sent add up to at most
\* the position size the fill poll read from the venue.
C13_TpSumWithinFilledSize ==
    run.size > 0 => QtyOf("TP1") + QtyOf("TP2") <= run.size

\* the 30% share of the size, floored to the lot step
Tp1Share == round_to_step((run.qty_rounded_f * tp1_ratio) \div 100, run.lot)

\* both take-profit steps of the run are over
TpStageDone == Sent("SL_MARK")

C15_OnGrid ==
    \A i \in DOMAIN calls :
        /\ calls[i].kind \in {"ENTRY", "TP1", "TP2", "SLB"} =>
              (calls[i].qty % run.lot = 0 /\ calls[i].qty >= run.min_qty)
        /\ calls[i].kind \in ChildKinds =>
              (calls[i].px % run.tick = 0 /\ calls[i].px <= Max(run.sl, run.tp2))

\* C16: the TP1, TP2 and fallback stop orders of a run are reduce-only and on the
\* side opposite to the entry; the entry order is not reduce-only.
C16_ChildrenReduceOnly ==
    \A i \in DOMAIN calls :
        /\ calls[i].kind \in {"TP1", "TP2", "SLB"} =>
              /\ calls[i].reduceOnly
              /\ calls[i].side = (IF run.side = "LONG" THEN "Sell" ELSE "Buy")
        /\ calls[i].kind = "ENTRY" =>
              /\ ~calls[i].reduceOnly
              /\ calls[i].side = (IF run.side = "LONG" THEN "Buy" ELSE "Sell")

\* a run that sent both take-profit orders and the fallback stop order
C16_Witness ==
    Returned /\ Sent("TP1") /\ Sent("TP2") /\ Accepted("SLB") /\ run.side = "SHORT"

\* C17: a /tv request with a required field missing or a non-numeric qty / sl /
\* tp1 / tp2 is answered without any request to the venue.
C17_RejectedBeforeVenue ==
    (run.req.op = "tv" /\ run.req.shape \in {"missing", "badnum"}) => calls = <<>>

\* C18: an /adjust operation that finds the position of the symbol absent or of
\* size 0 answers with the 'no position' error, and a trading-stop request is only
\* ever sent after a position of positive size was read.
C18_NoPositionNoStop ==
    run.req.op = "adjust" =>
        /\ (run.req.action \in AdjustActions /\ run.adj_size = 0) =>
              /\ resp.status = 400 /\ resp.error = "no position" /\ ~resp.ok
              /\ ~Sent("TRADING_STOP")
        /\ Sent("TRADING_STOP") => run.adj_size > 0

\* a 'be' request answered with 'no position' after the position was read
C18_Witness ==
    /\ pc = "ret" /\ run.req.op = "adjust" /\ run.req.action = "be"
    /\ Sent("position") /\ run.adj_size = 0 /\ resp.error = "no position"

AdminOps == {"adjust", "cancel_all", "cancel_orders", "close_position"}

\* C19: /adjust, /cancel_all, /cancel_orders and /close_position leave every key
\* of GUARD as it was, and none of them is ever answered as blocked by the guard.
C19_AdminIgnoresGuard ==
    /\ [][(pc = "idle" /\ run'.req.op \in AdminOps) => GUARD' = GUARD]_vars
    /\ [](resp.op \in AdminOps => ~resp.blocked)

\* a position is closed while the guard is blocking entries
C19_Witness ==
    /\ pc = "ret" /\ GUARD.enabled /\ GUARD.block
    /\ run.req.op = "close_position" /\ resp.ok /\ Accepted("CLOSE")

\* an accepted /guard request whose body has enable=false is being handled
DisableStep ==
    /\ pc = "idle" /\ run'.req.op = "guard"
    /\ run'.req.secret /\ run'.req.enable = "false"

\* C20 (as stated): a /guard request with enable=false sets block to false and
\* leaves baseline and start_date as they were before the request.
C20_DisableKeepsBaseline ==
    [][DisableStep =>
          /\ ~GUARD'.block
          /\ GUARD'.baseline = GUARD.baseline
          /\ GUARD'.start_date = GUARD.start_date]_vars

\* C20 (amended): a /guard request with enable=false and no truthy reset field
\* turns the guard off, sets block to false and leaves baseline and start_date as
\* they were; with a truthy reset field the request is a baseline reset, which
\* also sets block to false and leaves enabled as it was.
C20_DisableWithoutReset ==
    [][DisableStep =>
          /\ ~GUARD'.block
          /\ ~run'.req.reset =>
                /\ ~GUARD'.enabled
                /\ GUARD'.baseline = GUARD.baseline
                /\ GUARD'.start_date = GUARD.start_date
          /\ run'.req.reset => GUARD'.enabled = GUARD.enabled]_vars

\* a guard that was blocking has been turned off by enable=false
C20_Witness ==
    /\ pc = "ret" /\ run.req.op = "guard" /\ run.req.secret
    /\ run.req.enable = "false" /\ ~run.req.reset
    /\ run.block0 /\ ~GUARD.block /\ ~GUARD.enabled /\ GUARD.baseline # NoneV

\* an accepted /guard request with enable=true and no truthy reset field is being
\* handled while the guard is disabled
EnableStep ==
    /\ pc = "idle" /\ run'.req.op = "guard"
    /\ run'.req.secret /\ ~run'.req.reset /\ run'.req.enable = "true"
    /\ ~GUARD.enabled

\* C21: enabling a disabled guard makes the baseline the equity read by that
\* request, whatever baseline was held before, and leaves block false.
C21_ReenableResetsBaseline ==
    [][EnableStep =>
          /\ GUARD'.enabled
          /\ GUARD'.baseline = run'.eq
          /\ ~GUARD'.block
          /\ GUARD'.start_date = today]_vars

\* a guard that held another baseline before it was disabled has been enabled
C21_Witness ==
    /\ pc = "ret" /\ run.req.op = "guard" /\ run.req.secret
    /\ ~run.req.reset /\ run.req.enable = "true"
    /\ ~run.guard0.enabled /\ run.guard0.limit_pct # NoneV
    /\ run.guard0.baseline \notin {NoneV, GUARD.baseline}
    /\ GUARD.enabled /\ GUARD.baseline = run.eq /\ ~GUARD.block

\* C22: an enabled evaluation made on a UTC date other than the stored start_date
\* stores the new date as start_date, leaves block false and returns blocked=false,
\* whatever block was before.
C22_NewDayStartsUnblocked ==
    [][(pc = "guard" /\ GUARD.enabled /\ GUARD.start_date # today) =>
          /\ GUARD'.start_date = today
          /\ GUARD'.baseline \in EquityVals \cup {0}
          /\ ~GUARD'.block
          /\ ~g'.blocked]_vars

\* C23: a /tv signal whose key is the key of the latest signal, arriving while
\* the dedup window of that signal is open, sends no entry order.
C23_RepeatSuppressed ==
    (run.req.op = "tv" /\ run.shape = "ok" /\ seen = run.side) => ~Sent("ENTRY")

\* the positions of a /tv run from its entry order to the end of its stop-loss step
InBracket(p) ==
    p \in {"entry", "poll", "detect", "tp1", "tp2", "sl_mark", "sl_last", "sl_fb"}

ToClose ==
    LET Wanted(p) == /\ p.size > 0
                     /\ \/ run.req.which = "both"
                        \/ (run.req.which = "long" /\ p.side = "Buy")
                        \/ (run.req.which = "short" /\ p.side = "Sell")
    IN  SelectSeq(run.lst, Wanted)

\* the closing orders the handler has sent
CloseCalls ==
    LET IsClose(c) == c.kind = "CLOSE"
    IN  SelectSeq(calls, IsClose)

\* C25: a /close_position request that ran to its end has sent one reduce-only
\* order per position `which` selects, on the side opposite to the position's,
\* and nothing else.
C25_ClosesSelectedPositions ==
    (run.req.op = "close_position" /\ resp.ok) =>
        /\ Len(CloseCalls) = Len(ToClose)
        /\ \A k \in DOMAIN CloseCalls :
              /\ CloseCalls[k].reduceOnly
              /\ CloseCalls[k].side = (IF ToClose[k].side = "Buy" THEN "Sell" ELSE "Buy")

\* C26: block is never set while the guard is disabled, and an evaluation made
\* with the guard disabled returns blocked=false and changes no key of GUARD.
C26_BlockImpliesEnabled ==
    /\ [](GUARD.block => GUARD.enabled)
    /\ [][(pc = "guard" /\ ~GUARD.enabled) => (GUARD' = GUARD /\ ~g'.blocked)]_vars

\* a guard that holds a limit and a baseline and is disabled has been evaluated
\* by a /tv run, which went on to send its entry order
C26_Witness ==
    /\ g.evaluated /\ ~g.enabled /\ ~g.blocked /\ ~GUARD.block
    /\ GUARD.limit_pct # NoneV /\ GUARD.baseline \in EquityVals
    /\ Sent("ENTRY")

====
